---- MODULE Spec2Model ----
(***************************************************************************)
(* CompactIdBiMap<K> and CompactIdMap<I, K> of src/compact_id_map.rs.      *)
(*                                                                         *)
(* A behaviour follows one object, of either type, from its construction   *)
(* through the calls a single owner makes on it (the methods take          *)
(* &mut self, so calls never overlap).  The struct is the record `self`,   *)
(* with the fields of the source; every method is an operator from the     *)
(* struct before the call to the struct after it and the value returned.   *)
(***************************************************************************)
EXTENDS Integers, Sequences, FiniteSets

\* Number of distinct keys the caller of a CompactIdBiMap draws from.
NumKeys == 3
\* Number of distinct values the caller of a CompactIdMap stores.
NumVals == 2
\* usize::MAX, at reduced width.  A bimap with n live keys holds n entries of
\* at least size_of::<usize>() bytes in each of its two tables, so n stays
\* below usize::MAX on every target: NumKeys is kept below UsizeMax.
UsizeMax == 7
\* The largest value of the id type I chosen for a CompactIdMap<I, K>
\* (u8::MAX when I = u8), the value at which increment() has no successor.
IMax == 3
\* The number of ids a CompactIdBiMap can have handed out before its tables
\* and recycle_bin (one entry of size_of::<usize>() bytes or more per id)
\* exhaust the memory; below UsizeMax for the reason given there.
MaxEntries == 3
\* Number of distinct keys drawn from by a caller that does not keep to the
\* precondition of insert.
NumRawKeys == 2

Keys == 1..NumKeys
RawKeys == 1..NumRawKeys
Vals == 1..NumVals

BiMapKind == "CompactIdBiMap"
IdMapKind == "CompactIdMap"

VARIABLES
    kind,              \* which of the two types the object is
    debug_assertions,  \* cfg!(debug_assertions) of the build (overflow checks follow it)
    self,              \* the struct
    panicked,          \* a call has panicked; the owner makes no further call
    last,              \* the most recent call: method, argument, result
    allocated,         \* the ids insertions have returned so far
    run,               \* the ids insertions have returned since the last removal
    run_base,          \* the ids that were live at the last removal
    freed,             \* Some(id) while id was freed and no insertion has followed
    peak               \* the largest number of entries that were live at once

vars == <<kind, debug_assertions, self, panicked, last, allocated, run, run_base, freed,
          peak>>

----------------------------------------------------------------------------
\* Option<T>
Some(x) == <<x>>
None == <<>>

Range(s) == {s[n] : n \in DOMAIN s}

\* hashbrown::HashMap, as a function with a finite domain.
HashMap_new == [x \in {} |-> 0]
HashMap_contains_key(m, k) == k \in DOMAIN m
HashMap_get(m, k) == IF k \in DOMAIN m THEN Some(m[k]) ELSE None
HashMap_insert(m, k, v) == [x \in DOMAIN m \cup {k} |-> IF x = k THEN v ELSE m[x]]
HashMap_remove(m, k) == [x \in DOMAIN m \ {k} |-> m[x]]

\* Vec<ID>: push at the end, pop from the end.
Vec_push(v, x) == Append(v, x)
Vec_pop(v) == SubSeq(v, 1, Len(v) - 1)
Vec_last(v) == v[Len(v)]

\* Variant of increment: wrapping_add(1) in place of checked_add(1).
increment_Wrapping(i) == Some((i + 1) % (IMax + 1))

\* Incrementable::increment on an integer id type: checked_add(1).
increment(i) == IF i < IMax THEN Some(i + 1) ELSE None

\* What a call hands back: the struct after it, the value returned (always
\* wrapped: Val(id) for an ID, Some(x) or None for an Option; None when the
\* call panicked and returned nothing), whether it panicked.
Val(x) == <<x>>
Ret(s, r) == [self |-> s, ret |-> r, panic |-> FALSE]
Panic(s) == [self |-> s, ret |-> None, panic |-> TRUE]

----------------------------------------------------------------------------
\* CompactIdBiMap<K>

CompactIdBiMap_new ==
    [ids |-> HashMap_new, keys |-> HashMap_new, recycle_bin |-> <<>>, next_new_id |-> 0]

CompactIdBiMap_get(s, k) == HashMap_get(s.ids, k)

CompactIdBiMap_get_key(s, id) == HashMap_get(s.keys, id)

\* Variant of get_fresh_id: returns next_new_id after the increment.
CompactIdBiMap_get_fresh_id_PostIncrement(s, dbg) ==
    IF s.recycle_bin = <<>>
    THEN Ret([s EXCEPT !.next_new_id = (s.next_new_id + 1) % (UsizeMax + 1)],
             Val((s.next_new_id + 1) % (UsizeMax + 1)))
    ELSE Ret([s EXCEPT !.recycle_bin = Vec_pop(s.recycle_bin)],
             Val(Vec_last(s.recycle_bin)))

\* Variant of get_fresh_id: takes the oldest id of recycle_bin (remove(0)).
CompactIdBiMap_get_fresh_id_Fifo(s, dbg) ==
    IF s.recycle_bin = <<>>
    THEN Ret([s EXCEPT !.next_new_id = (s.next_new_id + 1) % (UsizeMax + 1)],
             Val(s.next_new_id))
    ELSE Ret([s EXCEPT !.recycle_bin = Tail(s.recycle_bin)], Val(Head(s.recycle_bin)))

\* `self.next_new_id += 1` on a usize: a panic under overflow checks, a
\* wrap-around without them.
CompactIdBiMap_get_fresh_id(s, dbg) ==
    IF s.recycle_bin = <<>>
    THEN IF s.next_new_id = UsizeMax /\ dbg
         THEN Panic(s)
         ELSE Ret([s EXCEPT !.next_new_id = (s.next_new_id + 1) % (UsizeMax + 1)],
                  Val(s.next_new_id))
    ELSE Ret([s EXCEPT !.recycle_bin = Vec_pop(s.recycle_bin)],
             Val(Vec_last(s.recycle_bin)))

\* Variant of insert: the `self.keys.insert(id, k)` is missing.
CompactIdBiMap_insert_ForwardOnly(s, k, dbg) ==
    LET f == CompactIdBiMap_get_fresh_id(s, dbg) IN
    IF f.panic THEN f
    ELSE Ret([f.self EXCEPT !.ids = HashMap_insert(f.self.ids, k, f.ret[1])], f.ret)

\* Variant of insert: assert! in place of debug_assert!.
CompactIdBiMap_insert_AssertAlways(s, k, dbg) ==
    LET f == CompactIdBiMap_get_fresh_id(s, dbg) IN
    IF f.panic THEN f
    ELSE IF HashMap_contains_key(f.self.ids, k) THEN Panic(f.self)
    ELSE Ret([f.self EXCEPT !.ids = HashMap_insert(f.self.ids, k, f.ret[1]),
                            !.keys = HashMap_insert(f.self.keys, f.ret[1], k)],
             f.ret)

\* get_fresh_id runs before the debug_assert!, so a failed assertion leaves
\* the id taken.
CompactIdBiMap_insert(s, k, dbg) ==
    LET f == CompactIdBiMap_get_fresh_id(s, dbg) IN
    IF f.panic THEN f
    ELSE IF dbg /\ HashMap_contains_key(f.self.ids, k) THEN Panic(f.self)
    ELSE Ret([f.self EXCEPT !.ids = HashMap_insert(f.self.ids, k, f.ret[1]),
                            !.keys = HashMap_insert(f.self.keys, f.ret[1], k)],
             f.ret)

\* Variant of get_or_insert: inserts without looking the key up.
CompactIdBiMap_get_or_insert_AlwaysInsert(s, k, dbg) ==
    CompactIdBiMap_insert(s, k, dbg)

CompactIdBiMap_get_or_insert(s, k, dbg) ==
    IF CompactIdBiMap_get(s, k) # None
    THEN Ret(s, Val(CompactIdBiMap_get(s, k)[1]))
    ELSE CompactIdBiMap_insert(s, k, dbg)

\* Variant of remove: the `self.keys.remove(&id)` is missing.
CompactIdBiMap_remove_KeepsBackward(s, k) ==
    IF HashMap_contains_key(s.ids, k)
    THEN Ret([s EXCEPT !.ids = HashMap_remove(s.ids, k),
                       !.recycle_bin = Vec_push(s.recycle_bin, s.ids[k])],
             Some(s.ids[k]))
    ELSE Ret(s, None)

CompactIdBiMap_remove(s, k) ==
    IF HashMap_contains_key(s.ids, k)
    THEN LET id == s.ids[k] IN
         Ret([s EXCEPT !.ids = HashMap_remove(s.ids, k),
                       !.recycle_bin = Vec_push(s.recycle_bin, id),
                       !.keys = HashMap_remove(s.keys, id)],
             Some(id))
    ELSE Ret(s, None)

\* Variant of remove_id: the `self.ids.remove(&k)` is missing.
CompactIdBiMap_remove_id_KeepsForward(s, id) ==
    IF HashMap_contains_key(s.keys, id)
    THEN Ret([s EXCEPT !.keys = HashMap_remove(s.keys, id),
                       !.recycle_bin = Vec_push(s.recycle_bin, id)],
             Some(s.keys[id]))
    ELSE Ret(s, None)

CompactIdBiMap_remove_id(s, id) ==
    IF HashMap_contains_key(s.keys, id)
    THEN LET k == s.keys[id] IN
         Ret([s EXCEPT !.keys = HashMap_remove(s.keys, id),
                       !.recycle_bin = Vec_push(s.recycle_bin, id),
                       !.ids = HashMap_remove(s.ids, k)],
             Some(k))
    ELSE Ret(s, None)

----------------------------------------------------------------------------
\* CompactIdMap<I, K>

CompactIdMap_new ==
    [keys |-> HashMap_new, recycle_bin |-> <<>>, next_new_id |-> 0]

CompactIdMap_get(s, id) == HashMap_get(s.keys, id)

\* Variant of fresh_id: reads the top of recycle_bin (last()) and leaves it there.
CompactIdMap_fresh_id_NoPop(s) ==
    IF s.recycle_bin = <<>>
    THEN IF increment(s.next_new_id) = None
         THEN Panic(s)
         ELSE Ret([s EXCEPT !.next_new_id = increment(s.next_new_id)[1]],
                  Val(s.next_new_id))
    ELSE Ret(s, Val(Vec_last(s.recycle_bin)))

\* Variant of fresh_id: next_new_id is returned and not advanced.
CompactIdMap_fresh_id_NoAdvance(s) ==
    IF s.recycle_bin = <<>>
    THEN Ret(s, Val(s.next_new_id))
    ELSE Ret([s EXCEPT !.recycle_bin = Vec_pop(s.recycle_bin)],
             Val(Vec_last(s.recycle_bin)))

\* Variant of fresh_id: takes the oldest id of recycle_bin (remove(0)).
CompactIdMap_fresh_id_Fifo(s) ==
    IF s.recycle_bin = <<>>
    THEN IF increment(s.next_new_id) = None
         THEN Panic(s)
         ELSE Ret([s EXCEPT !.next_new_id = increment(s.next_new_id)[1]],
                  Val(s.next_new_id))
    ELSE Ret([s EXCEPT !.recycle_bin = Tail(s.recycle_bin)], Val(Head(s.recycle_bin)))

\* Variant of fresh_id: mints a new id even when recycle_bin holds one.
CompactIdMap_fresh_id_NeverReuse(s) ==
    IF increment(s.next_new_id) = None
    THEN Panic(s)
    ELSE Ret([s EXCEPT !.next_new_id = increment(s.next_new_id)[1]], Val(s.next_new_id))

\* `self.next_new_id.increment().unwrap()`: a panic when there is no successor,
\* before next_new_id is assigned and before the id is returned.
CompactIdMap_fresh_id(s) ==
    IF s.recycle_bin = <<>>
    THEN IF increment(s.next_new_id) = None
         THEN Panic(s)
         ELSE Ret([s EXCEPT !.next_new_id = increment(s.next_new_id)[1]],
                  Val(s.next_new_id))
    ELSE Ret([s EXCEPT !.recycle_bin = Vec_pop(s.recycle_bin)],
             Val(Vec_last(s.recycle_bin)))

\* Variant of insert: a value that is already stored gets the id it has.
CompactIdMap_insert_Dedup(s, v) ==
    IF \E i \in DOMAIN s.keys : s.keys[i] = v
    THEN Ret(s, Val(CHOOSE i \in DOMAIN s.keys : s.keys[i] = v))
    ELSE LET f == CompactIdMap_fresh_id(s) IN
         IF f.panic THEN f
         ELSE Ret([f.self EXCEPT !.keys = HashMap_insert(f.self.keys, f.ret[1], v)], f.ret)

CompactIdMap_insert(s, v) ==
    LET f == CompactIdMap_fresh_id(s) IN
    IF f.panic THEN f
    ELSE Ret([f.self EXCEPT !.keys = HashMap_insert(f.self.keys, f.ret[1], v)], f.ret)

\* get_mut hands out &mut K; the caller may store a value through it.
CompactIdMap_get_mut(s, id, v) ==
    IF HashMap_contains_key(s.keys, id)
    THEN Ret([s EXCEPT !.keys = HashMap_insert(s.keys, id, v)], Some(v))
    ELSE Ret(s, None)

\* Variant of remove_id: the `self.recycle_bin.push(id)` is missing.
CompactIdMap_remove_id_NoPush(s, id) ==
    IF HashMap_contains_key(s.keys, id)
    THEN Ret([s EXCEPT !.keys = HashMap_remove(s.keys, id)], Some(s.keys[id]))
    ELSE Ret(s, None)

\* Variant of remove_id: the id is pushed whether or not it was stored.
CompactIdMap_remove_id_AlwaysPush(s, id) ==
    IF HashMap_contains_key(s.keys, id)
    THEN Ret([s EXCEPT !.keys = HashMap_remove(s.keys, id),
                       !.recycle_bin = Vec_push(s.recycle_bin, id)],
             Some(s.keys[id]))
    ELSE Ret([s EXCEPT !.recycle_bin = Vec_push(s.recycle_bin, id)], None)

CompactIdMap_remove_id(s, id) ==
    IF HashMap_contains_key(s.keys, id)
    THEN Ret([s EXCEPT !.keys = HashMap_remove(s.keys, id),
                       !.recycle_bin = Vec_push(s.recycle_bin, id)],
             Some(s.keys[id]))
    ELSE Ret(s, None)

----------------------------------------------------------------------------
\* The calls of one owner.

\* Ids in use: the domain of the backward map / of the store.
Live(s) == DOMAIN s.keys

\* The values of the two id types.
Usize == 0..UsizeMax
IType == 0..IMax
\* The ids a caller of a CompactIdBiMap passes: every id NumKeys keys can
\* have been given, and one more that no insertion has returned.
UsizeArgs == 0..NumKeys

\* One call: the struct and the record of the call.  `ins` tells that
\* insert() ran in the call and returned, `rem` the id the call freed.
\* last.pre_live and last.pre_freed are the number of live ids and `freed`
\* before the call, last.rep tells that the call repeats the one before it.
Call(op, arg, r, ins, rem) ==
    /\ self' = r.self
    /\ panicked' = r.panic
    /\ last' = [op |-> op, arg |-> arg, ret |-> r.ret, ins |-> ins /\ ~r.panic,
                pre_live |-> Cardinality(Live(self)), pre_freed |-> freed,
                rep |-> last.op = op /\ last.arg = arg]
    /\ allocated' = IF ins /\ ~r.panic THEN allocated \cup {r.ret[1]} ELSE allocated
    /\ run' = IF rem # None THEN <<>>
              ELSE IF ins /\ ~r.panic THEN Append(run, r.ret[1])
              ELSE run
    /\ run_base' = IF rem # None THEN Live(r.self) ELSE run_base
    /\ freed' = IF rem # None THEN rem
                ELSE IF ins /\ ~r.panic THEN None
                ELSE freed
    /\ peak' = IF Cardinality(Live(r.self)) > peak THEN Cardinality(Live(r.self)) ELSE peak
    /\ UNCHANGED <<kind, debug_assertions>>

Init ==
    /\ kind \in {BiMapKind, IdMapKind}
    \* Only CompactIdBiMap has code that depends on the build (the
    \* debug_assert! and the overflow check of `+= 1`).
    /\ debug_assertions \in (IF kind = BiMapKind THEN BOOLEAN ELSE {FALSE})
    /\ self = IF kind = BiMapKind THEN CompactIdBiMap_new ELSE CompactIdMap_new
    /\ panicked = FALSE
    /\ last = [op |-> "new", arg |-> None, ret |-> None, ins |-> FALSE,
               pre_live |-> 0, pre_freed |-> None, rep |-> FALSE]
    /\ allocated = {}
    /\ run = <<>>
    /\ run_base = {}
    /\ freed = None
    /\ peak = 0

BiGetOrInsert(k) ==
    /\ kind = BiMapKind /\ ~panicked
    /\ Call("get_or_insert", Some(k),
            CompactIdBiMap_get_or_insert(self, k, debug_assertions),
            ~HashMap_contains_key(self.ids, k), None)

BiGet(k) ==
    /\ kind = BiMapKind /\ ~panicked
    /\ Call("get", Some(k), Ret(self, CompactIdBiMap_get(self, k)), FALSE, None)

BiGetKey(id) ==
    /\ kind = BiMapKind /\ ~panicked
    /\ Call("get_key", Some(id), Ret(self, CompactIdBiMap_get_key(self, id)), FALSE, None)

\* insert, called as its precondition asks: with a key that is not present.
BiInsert(k) ==
    /\ kind = BiMapKind /\ ~panicked
    /\ ~HashMap_contains_key(self.ids, k)
    /\ Call("insert", Some(k), CompactIdBiMap_insert(self, k, debug_assertions), TRUE, None)

BiRemove(k) ==
    /\ kind = BiMapKind /\ ~panicked
    /\ LET r == CompactIdBiMap_remove(self, k) IN
       Call("remove", Some(k), r, FALSE, r.ret)

BiRemoveId(id) ==
    /\ kind = BiMapKind /\ ~panicked
    /\ LET r == CompactIdBiMap_remove_id(self, id) IN
       Call("remove_id", Some(id), r, FALSE, IF r.ret # None THEN Some(id) ELSE None)

MapGet(id) ==
    /\ kind = IdMapKind /\ ~panicked
    /\ Call("get", Some(id), Ret(self, CompactIdMap_get(self, id)), FALSE, None)

MapGetMut(id, v) ==
    /\ kind = IdMapKind /\ ~panicked
    /\ Call("get_mut", Some(id), CompactIdMap_get_mut(self, id, v), FALSE, None)

MapInsert(v) ==
    /\ kind = IdMapKind /\ ~panicked
    /\ Call("insert", Some(v), CompactIdMap_insert(self, v), TRUE, None)

MapRemoveId(id) ==
    /\ kind = IdMapKind /\ ~panicked
    /\ LET r == CompactIdMap_remove_id(self, id) IN
       Call("remove_id", Some(id), r, FALSE, IF r.ret # None THEN Some(id) ELSE None)

Next ==
    \/ \E k \in Keys : BiGetOrInsert(k)
    \/ \E k \in Keys : BiGet(k)
    \/ \E id \in UsizeArgs : BiGetKey(id)
    \/ \E k \in Keys : BiInsert(k)
    \/ \E k \in Keys : BiRemove(k)
    \/ \E id \in UsizeArgs : BiRemoveId(id)
    \/ \E id \in IType : MapGet(id)
    \/ \E id \in IType, v \in Vals : MapGetMut(id, v)
    \/ \E v \in Vals : MapInsert(v)
    \/ \E id \in IType : MapRemoveId(id)

Spec == Init /\ [][Next]_vars

\* A CompactIdBiMap whose caller does not keep to the precondition of insert:
\* insert is called with any key, as long as memory lasts for a new id.
HasRoom(s) == s.recycle_bin # <<>> \/ s.next_new_id < MaxEntries

BiInsertAny(k) ==
    /\ kind = BiMapKind /\ ~panicked
    /\ HasRoom(self)
    /\ Call("insert", Some(k), CompactIdBiMap_insert(self, k, debug_assertions), TRUE, None)

BiGetOrInsertRoom(k) == HasRoom(self) /\ BiGetOrInsert(k)

InitBiMap == Init /\ kind = BiMapKind

NextRaw ==
    \/ \E k \in RawKeys : BiGetOrInsertRoom(k)
    \/ \E k \in RawKeys : BiGet(k)
    \/ \E id \in 0..MaxEntries : BiGetKey(id)
    \/ \E k \in RawKeys : BiInsertAny(k)
    \/ \E k \in RawKeys : BiRemove(k)
    \/ \E id \in 0..MaxEntries : BiRemoveId(id)

SpecRaw == InitBiMap /\ [][NextRaw]_vars

\* A CompactIdBiMap whose caller uses get_or_insert, remove and remove_id only.
NextSafe ==
    \/ \E k \in Keys : BiGetOrInsert(k)
    \/ \E k \in Keys : BiRemove(k)
    \/ \E id \in UsizeArgs : BiRemoveId(id)

SpecSafe == InitBiMap /\ [][NextSafe]_vars

----------------------------------------------------------------------------
\* Properties.

IsBiMap == kind = BiMapKind
NoDuplicates(q) == \A m, n \in DOMAIN q : m # n => q[m] # q[n]

\* C1: in a CompactIdBiMap whose insert is only called with absent keys, ids
\* (key -> id) and keys (id -> key) are exact inverses: as many entries on
\* both sides, ids[k] = i exactly when keys[i] = k, no orphan on either side.
C1_ForwardBackwardInverse ==
    IsBiMap =>
        /\ Cardinality(DOMAIN self.ids) = Cardinality(DOMAIN self.keys)
        /\ \A k \in Keys, i \in Usize :
              (k \in DOMAIN self.ids /\ self.ids[k] = i)
                  <=> (i \in DOMAIN self.keys /\ self.keys[i] = k)
        /\ \A k \in DOMAIN self.ids : self.ids[k] \in DOMAIN self.keys
        /\ \A i \in DOMAIN self.keys : self.keys[i] \in DOMAIN self.ids

\* Both directions hold entries, ids have been recycled, and all four
\* mutating methods have had their turn (a removal by id came last).
C1_Witness ==
    /\ IsBiMap
    /\ Cardinality(DOMAIN self.ids) >= 2
    /\ Len(self.recycle_bin) >= 1
    /\ last.op = "remove_id" /\ last.ret # None

\* C2: in both maps the live ids and the ids in recycle_bin are disjoint.
C2_LiveDisjointFromRecycleBin ==
    Live(self) \cap Range(self.recycle_bin) = {}

\* An insertion has just taken an id out of a recycle_bin that still holds
\* another one.
C2_Witness ==
    /\ last.ins /\ last.pre_freed # None
    /\ self.recycle_bin # <<>>
    /\ Live(self) # {}

\* C3: in both maps every live id, every id in recycle_bin and every id an
\* insertion has returned is strictly less than next_new_id.
C3_IdsBelowNextNewId ==
    \A i \in Live(self) \cup Range(self.recycle_bin) \cup allocated :
        i < self.next_new_id

\* A CompactIdMap whose next_new_id has reached the maximum of its id type,
\* with ids live and ids in the bin.
C3_Witness ==
    /\ kind = IdMapKind
    /\ self.next_new_id = IMax
    /\ Live(self) # {} /\ self.recycle_bin # <<>>
    /\ allocated = 0..(IMax - 1)

C5_Uniqueness ==
    /\ NoDuplicates(run)
    /\ Range(run) \cap run_base = {}

\* A run of two insertions after a removal that left an id live: the first
\* reuses the freed id, the second mints a new one.
C5_Witness ==
    /\ Len(run) >= 2
    /\ run_base # {}
    /\ run[1] < run[2]

\* C6: when insert(k), k absent, returns i in a CompactIdBiMap, then
\* get_key(i) = Some(k) and get(k) = Some(i) right after, and the answers for
\* every other key and every other id are what they were.
C6_InsertRoundTrip ==
    [][(IsBiMap /\ last'.ins) =>
          LET k == last'.arg[1]
              i == last'.ret[1]
          IN /\ CompactIdBiMap_get_key(self', i) = Some(k)
             /\ CompactIdBiMap_get(self', k) = Some(i)
             /\ \A k2 \in Keys \ {k} :
                   CompactIdBiMap_get(self', k2) = CompactIdBiMap_get(self, k2)
             /\ \A i2 \in Usize \ {i} :
                   CompactIdBiMap_get_key(self', i2) = CompactIdBiMap_get_key(self, i2)
      ]_vars

\* insert has just returned into a bimap that holds another key as well.
C6_Witness ==
    /\ IsBiMap
    /\ last.op = "insert" /\ last.ins
    /\ Cardinality(DOMAIN self.ids) >= 2
    /\ self.recycle_bin # <<>>

\* C7: get_or_insert(k) for a present key returns its id and changes nothing
\* in the struct; called twice in a row it returns the same id both times,
\* the second call changes nothing, and the number of live ids after both
\* calls exceeds the number before the first by at most one.
C7_GetOrInsertIdempotent ==
    [][(IsBiMap /\ last'.op = "get_or_insert") =>
          LET k == last'.arg[1] IN
          /\ HashMap_contains_key(self.ids, k) =>
                /\ self' = self
                /\ last'.ret = Val(self.ids[k])
          /\ (last.op = "get_or_insert" /\ last.arg = last'.arg) =>
                /\ last'.ret = last.ret
                /\ self' = self
                /\ Cardinality(Live(self')) <= last.pre_live + 1
      ]_vars

\* get_or_insert(k) has run twice in a row, the first call having inserted k.
C7_Witness ==
    /\ IsBiMap
    /\ last.op = "get_or_insert" /\ last.rep
    /\ run # <<>> /\ last.ret = Val(run[Len(run)])
    /\ Cardinality(Live(self)) >= 2

\* C8: in both maps, when a removal has freed id X and the next mutating
\* call is an insertion, the insertion returns X and leaves next_new_id as it
\* was.
C8_ImmediateLifoReuse ==
    [][(last'.ins /\ freed # None) =>
          /\ last'.ret = Val(freed[1])
          /\ self'.next_new_id = self.next_new_id
      ]_vars

\* An insertion that followed a removal, the bin holding a second, older id.
C8_Witness ==
    /\ last.ins /\ last.pre_freed # None
    /\ last.ret = Val(last.pre_freed[1])
    /\ self.recycle_bin # <<>>

\* C9: when remove(k) returns Some(id) in a CompactIdBiMap, then get(k) and
\* get_key(id) are None right after, id is the top of recycle_bin, and the
\* answers for every other key and every other id are what they were.
C9_RemoveClearsBothDirections ==
    [][(IsBiMap /\ last'.op = "remove" /\ last'.ret # None) =>
          LET k == last'.arg[1]
              id == last'.ret[1]
          IN /\ CompactIdBiMap_get(self', k) = None
             /\ CompactIdBiMap_get_key(self', id) = None
             /\ self'.recycle_bin # <<>>
             /\ Vec_last(self'.recycle_bin) = id
             /\ \A k2 \in Keys \ {k} :
                   CompactIdBiMap_get(self', k2) = CompactIdBiMap_get(self, k2)
             /\ \A i2 \in Usize \ {id} :
                   CompactIdBiMap_get_key(self', i2) = CompactIdBiMap_get_key(self, i2)
      ]_vars

\* remove(k) has returned Some(id) while another key stays mapped and the bin
\* already held an id.
C9_Witness ==
    /\ IsBiMap
    /\ last.op = "remove" /\ last.ret # None
    /\ Live(self) # {}
    /\ Len(self.recycle_bin) >= 2

\* C10: remove(k) for an absent key, and remove_id(i) in either map for an id
\* never allocated or already removed, return None and leave the struct as it
\* was; removing the same key or id twice in a row does not push the id onto
\* recycle_bin a second time.
C10_NotFoundRemovalNoSideEffect ==
    [][/\ (IsBiMap /\ last'.op = "remove"
              /\ ~HashMap_contains_key(self.ids, last'.arg[1])) =>
             (last'.ret = None /\ self' = self)
       /\ (last'.op = "remove_id"
              /\ (last'.arg[1] \notin allocated
                     \/ last'.arg[1] \in Range(self.recycle_bin))) =>
             (last'.ret = None /\ self' = self)
       /\ (last'.op \in {"remove", "remove_id"}
              /\ last.op = last'.op /\ last.arg = last'.arg) =>
             (last'.ret = None /\ self'.recycle_bin = self.recycle_bin)
      ]_vars

\* The id on top of recycle_bin has just been removed a second time.
C10_Witness ==
    /\ last.op = "remove_id" /\ last.rep /\ last.ret = None
    /\ self.recycle_bin # <<>>
    /\ Vec_last(self.recycle_bin) = last.arg[1]
    /\ Live(self) # {}

\* C11: in a CompactIdBiMap, for every key k present with id i, remove(k)
\* returns Some(i), remove_id(i) returns Some(k), and both leave the same
\* ids, keys, recycle_bin and next_new_id.
C11_RemoveRemoveIdSymmetric ==
    IsBiMap =>
        \A k \in DOMAIN self.ids :
            LET i == self.ids[k]
                by_key == CompactIdBiMap_remove(self, k)
                by_id == CompactIdBiMap_remove_id(self, i)
            IN /\ by_key.ret = Some(i)
               /\ by_id.ret = Some(k)
               /\ by_key.self = by_id.self

\* A removal by id and then a removal by key have each freed an id, and a
\* key is still present to be removed either way.
C11_Witness ==
    /\ IsBiMap
    /\ DOMAIN self.ids # {}
    /\ last.op = "remove" /\ last.ret # None
    /\ last.pre_freed # None

\* C12: when insert(v) returns id in a CompactIdMap, id was not live before
\* the call, get(id) = Some(v) after it, and every entry stored before is
\* unchanged; inserting the same value again right away returns another id,
\* and both ids are live with that value.
C12_MapInsert ==
    [][(kind = IdMapKind /\ last'.ins) =>
          LET v == last'.arg[1]
              id == last'.ret[1]
          IN /\ id \notin Live(self)
             /\ CompactIdMap_get(self', id) = Some(v)
             /\ \A i2 \in Live(self) :
                   CompactIdMap_get(self', i2) = CompactIdMap_get(self, i2)
             /\ (last.op = "insert" /\ last.ins /\ last.arg = last'.arg) =>
                   /\ last.ret # last'.ret
                   /\ CompactIdMap_get(self', last.ret[1]) = Some(v)
      ]_vars

\* The same value has been inserted twice in a row and sits under two ids.
C12_Witness ==
    /\ kind = IdMapKind
    /\ last.op = "insert" /\ last.ins /\ last.rep
    /\ \E i, j \in Live(self) : i # j /\ self.keys[i] = self.keys[j]
    /\ Cardinality(Live(self)) >= 3

\* C13: when a CompactIdMap's recycle_bin is empty and next_new_id has no
\* successor, insert hands the caller a result that tells of the exhaustion:
\* the call returns, it does not panic.  (The code does panic: unwrap() on
\* the None of increment().)
C13_ExhaustionIsRecoverable ==
    (kind = IdMapKind /\ last.op = "insert" /\ ~last.ins) => ~panicked

\* C16: every insertion that returns, in either type, pops and returns the
\* last id pushed onto recycle_bin and leaves next_new_id alone when
\* recycle_bin is not empty; otherwise it returns next_new_id and advances it
\* by exactly one.
C16_AllocationPolicy ==
    [][last'.ins =>
          IF self.recycle_bin # <<>>
          THEN /\ last'.ret = Val(Vec_last(self.recycle_bin))
               /\ self'.recycle_bin = Vec_pop(self.recycle_bin)
               /\ self'.next_new_id = self.next_new_id
          ELSE /\ last'.ret = Val(self.next_new_id)
               /\ self'.next_new_id = self.next_new_id + 1
               /\ self'.recycle_bin = <<>>
      ]_vars

\* The scenario of test_ids: insert, insert, remove the first, insert, insert
\* have returned 0, 1, then 0 again, then 2.
C16_Witness ==
    /\ IsBiMap
    /\ allocated = {0, 1, 2}
    /\ run = <<0, 2>>
    /\ run_base = {1}
    /\ last.op = "insert" /\ last.ret = Val(2)
    /\ self.next_new_id = 3

\* C18: in both types recycle_bin holds no id twice, the live ids and the ids
\* of recycle_bin together are exactly 0 .. next_new_id - 1, and the number of
\* live ids plus the length of recycle_bin is next_new_id.
C18_IdSpacePartition ==
    /\ NoDuplicates(self.recycle_bin)
    /\ Live(self) \cup Range(self.recycle_bin) = 0..(self.next_new_id - 1)
    /\ Cardinality(Live(self)) + Len(self.recycle_bin) = self.next_new_id

\* Three ids have been minted; one is live and two wait in recycle_bin.
C18_Witness ==
    /\ self.next_new_id = 3
    /\ Cardinality(Live(self)) = 1
    /\ Len(self.recycle_bin) = 2

\* C19: in both types next_new_id equals the largest number of entries that
\* were ever live at once, and every id an insertion has returned is below
\* that number.
C19_Density ==
    /\ self.next_new_id = peak
    /\ \A i \in allocated : i < peak

\* Entries have been removed and inserted again after the peak was reached:
\* fewer are live than at the peak, and the last insertion reused an id.
C19_Witness ==
    /\ peak >= 3
    /\ Cardinality(Live(self)) < peak
    /\ last.ins /\ last.pre_freed # None

\* C20: in a CompactIdMap whose id type has maximum IMax, an insert that finds
\* recycle_bin empty and next_new_id = IMax fails and changes nothing, so the
\* id IMax is never returned and at most IMax entries are live; an insert that
\* finds an id in recycle_bin returns, also when next_new_id = IMax.
C20_CapacityAtMaximum ==
    [][kind = IdMapKind =>
          /\ IMax \notin allocated'
          /\ Cardinality(Live(self')) <= IMax
          /\ (last'.op = "insert" /\ self.recycle_bin = <<>>
                 /\ self.next_new_id = IMax) =>
                (~last'.ins /\ panicked' /\ self' = self)
          /\ (last'.op = "insert" /\ self.recycle_bin # <<>>) =>
                (last'.ins /\ ~panicked')
      ]_vars

\* With next_new_id at IMax an insert has reused a freed id and the map is
\* full again: IMax entries are live.
C20_Witness ==
    /\ kind = IdMapKind
    /\ self.next_new_id = IMax
    /\ Cardinality(Live(self)) = IMax
    /\ last.op = "insert" /\ last.ins /\ last.pre_freed # None

\* C14: insert(k) on a CompactIdBiMap that holds k with id a.  Without debug
\* assertions the call returns a newly allocated id b # a; afterwards
\* get(k) = Some(b), get_key(a) and get_key(b) are both Some(k), and ids and
\* keys are no longer inverses.  With debug assertions the call panics.
C14_DuplicateKeyInsert ==
    [][(last'.op = "insert" /\ HashMap_contains_key(self.ids, last'.arg[1])) =>
          LET k == last'.arg[1]
              a == self.ids[k]
          IN IF debug_assertions
             THEN panicked' /\ ~last'.ins
             ELSE /\ ~panicked' /\ last'.ins
                  /\ last'.ret # Val(a)
                  /\ last'.ret[1] \notin Live(self)
                  /\ CompactIdBiMap_get(self', k) = last'.ret
                  /\ CompactIdBiMap_get_key(self', a) = Some(k)
                  /\ CompactIdBiMap_get_key(self', last'.ret[1]) = Some(k)
                  /\ Cardinality(DOMAIN self'.ids) < Cardinality(DOMAIN self'.keys)
      ]_vars

\* A release build in which insert has been called for a present key: the
\* key is found under two ids.
C14_Witness ==
    /\ IsBiMap /\ ~debug_assertions
    /\ last.op = "insert" /\ last.ins
    /\ \E a \in Live(self) :
          /\ a # last.ret[1]
          /\ self.keys[a] = last.arg[1]
          /\ self.keys[last.ret[1]] = last.arg[1]

\* C17: in a CompactIdBiMap used through get_or_insert, remove and remove_id
\* only, in either build, no call of get_or_insert panics, insert runs inside
\* it only for a key that ids does not hold (the condition of its
\* debug_assert!), and no key is ever found under two ids.
C17_GetOrInsertSafe ==
    [][last'.op = "get_or_insert" =>
          /\ ~panicked'
          /\ last'.ins <=> ~HashMap_contains_key(self.ids, last'.arg[1])
          /\ last'.ins =>
                ~HashMap_contains_key(
                    CompactIdBiMap_get_fresh_id(self, debug_assertions).self.ids,
                    last'.arg[1])
          /\ \A i, j \in Live(self') : self'.keys[i] = self'.keys[j] => i = j
          /\ \A k \in DOMAIN self'.ids : self'.keys[self'.ids[k]] = k
      ]_vars

\* A debug build in which get_or_insert has inserted a key under a recycled
\* id, next to another key.
C17_Witness ==
    /\ IsBiMap /\ debug_assertions
    /\ last.op = "get_or_insert" /\ last.ins
    /\ last.pre_freed # None
    /\ Cardinality(Live(self)) >= 2

====
